---- MODULE Spec2Model ----
(***************************************************************************)
(* tcp::Server<Handler> (include/tcp/server.h): the epoll event loop of    *)
(* Server::Run, the worker-side Server::HandleConnUpdate, the thread pool  *)
(* that carries the work items between them, and the kernel objects they   *)
(* act on (descriptor table, epoll interest list, socket receive queues).  *)
(***************************************************************************)
EXTENDS Integers, Sequences, FiniteSets, TLC

\* ---------------------------------------------------------------- bounds
MaxConns == 2      \* logical client connections that may ever connect
Threads == 2       \* worker threads of the pool (Server's `threads`)
BufSize == 2       \* Server's `buf_size`: bytes asked of one read()
MaxEvents == 2     \* Server's `max_events`: events returned by one epoll_wait
MaxSend == 2       \* bytes the clients send in all

Conns == 1..MaxConns
Fds == 1..MaxConns          \* descriptor values handed out by accept()
Workers == 1..Threads
ServerFd == 0               \* _server_fd, the listening socket
NoConn == 0                 \* "no connection": a free descriptor, an unresolved address

VARIABLES
  cst,         \* cst[c]: client c's connection: "init", "backlog", "estab" (accepted),
               \* "dropped" (accept failed, or closed by the loop for a failed
               \* registration), "closed", "shut"
  backlog,     \* accept queue of the listening socket (connections, oldest first)
  rcv,         \* rcv[c]: bytes received from client c and not yet read by the server
  sent,        \* sent[c]: bytes client c has sent so far
  fin,         \* fin[c]: client c shut its side down in order (FIN received)
  rst,         \* rst[c]: client c aborted the connection (RST received)
  fdOwner,     \* fdOwner[f]: the connection descriptor f refers to, NoConn when f is closed
  registered,  \* descriptors in the epoll interest list (besides the listening socket)
  lp,          \* the loop thread: program counter, batch of events, pending close
  queue,       \* the thread pool's task queue
  wk,          \* wk[w]: worker w: program counter, the task it runs, its locals
  cb,          \* cb[c]: handler callbacks invoked so far for connection c
  closeCalls,  \* closeCalls[c]: close() calls issued so far on connection c's handle
  srv          \* the Server object's resources: _epoll_fd, _server_fd ("none", "open",
               \* "failed" for -1, "closed"), whether _server_fd listens, and the
               \* pool's threads ("none", "running", "stopping", "joined")

vars == <<cst, backlog, rcv, sent, fin, rst, fdOwner, registered, lp, queue, wk, cb, closeCalls, srv>>
osVars == <<cst, backlog, rcv, sent, fin, rst, fdOwner, registered>>

\* ---------------------------------------------------------------- values
\* The i-th byte client c sends; never 0, the value of a value-initialised std::byte.
Byte(c, i) == 10 * c + i

Min(a, b) == IF a < b THEN a ELSE b

\* std::vector<std::byte> in_buf(_buf_size) after read() stored `data` at its start.
InBuf(data) == data \o [i \in 1..(BufSize - Len(data)) |-> 0]

NoItem == [kind |-> "None", fd |-> 0, conn |-> NoConn, addr |-> NoConn, in_buf |-> <<>>, n |-> 0]

\* The closure pushed for HandleConnUpdate<UK>(handler, client_fd, in_buf).
\* conn and n are history: the connection the item was created for, the bytes read.
UpdateItem(uk, fd, c, buf, n) ==
  [kind |-> uk, fd |-> fd, conn |-> c, addr |-> NoConn, in_buf |-> buf, n |-> n]

\* The closure pushed for handler.OnError(client_addr, ...) / handler.OnClose(client_addr).
TerminalItem(k, c, addr) ==
  [kind |-> k, fd |-> 0, conn |-> c, addr |-> addr, in_buf |-> <<>>, n |-> 0]

IdleWorker == [pc |-> "idle", item |-> NoItem, addr |-> NoConn]

NoCalls == [new |-> 0, read |-> 0, close |-> 0, error |-> 0]

\* ---------------------------------------------------------------- kernel
Open(f) == f \in Fds /\ fdOwner[f] # NoConn

\* getpeername(): fails on a closed descriptor and on a reset connection.
GetClientAddressOk(f) == Open(f) /\ ~rst[fdOwner[f]]

\* GetClientAddress's result when it succeeds: the peer of the descriptor's socket.
GetClientAddress(f) == fdOwner[f]

\* Write(fd, out_buf): fails on a closed descriptor and on a reset connection.
WriteOk(f) == Open(f) /\ ~rst[fdOwner[f]]

\* Whether a socket has something a read() returns at once.
Readable(c) == rcv[c] # <<>> \/ fin[c] \/ rst[c]

\* The lowest free descriptor, as accept() allocates it.
LowestFree == CHOOSE f \in Fds : ~Open(f) /\ \A g \in Fds : g < f => Open(g)

\* Events the epoll instance has ready (level-triggered, EPOLLIN interest): a socket
\* a read() or accept() would not block on reports EPOLLIN; a reset connection reports
\* EPOLLHUP as well, whatever the interest (its read() returns at once, with an error).
ReadyEvents ==
  (IF backlog # <<>>
     THEN {[fd |-> ServerFd, epollin |-> TRUE, hup |-> FALSE, conn |-> NoConn]} ELSE {})
  \cup {[fd |-> f, epollin |-> Readable(fdOwner[f]), hup |-> rst[fdOwner[f]], conn |-> fdOwner[f]] :
          f \in {g \in registered : Readable(fdOwner[g])}}

\* Sequences of k distinct elements of S.
RECURSIVE Arrangements(_, _)
Arrangements(S, k) ==
  IF k = 0 THEN {<<>>}
  ELSE UNION {{<<e>> \o s : s \in Arrangements(S \ {e}, k - 1)} : e \in S}

\* close(f) by a thread acting for connection c: the descriptor is freed, leaves the
\* interest list, and its socket is destroyed with whatever it had received.
\* `how` is what the connection becomes: "closed" (closed on an error or at end of
\* stream) or "shut" (closed by the server after keep_alive = false).
Close(f, c, how) ==
  /\ closeCalls' = [closeCalls EXCEPT ![c] = @ + 1]
  /\ IF Open(f)
       THEN /\ fdOwner' = [fdOwner EXCEPT ![f] = NoConn]
            /\ registered' = registered \ {f}
            /\ cst' = [cst EXCEPT ![fdOwner[f]] = how]
            /\ rcv' = [rcv EXCEPT ![fdOwner[f]] = <<>>]
            /\ fin' = [fin EXCEPT ![fdOwner[f]] = FALSE]
            /\ rst' = [rst EXCEPT ![fdOwner[f]] = FALSE]
       ELSE UNCHANGED <<fdOwner, registered, cst, rcv, fin, rst>>

\* ---------------------------------------------------------------- handler
OnNew(c) == cb' = [cb EXCEPT ![c].new = @ + 1]
OnRead(c) == cb' = [cb EXCEPT ![c].read = @ + 1]
OnClose(c) == cb' = [cb EXCEPT ![c].close = @ + 1]
OnError(c) == cb' = [cb EXCEPT ![c].error = @ + 1]

\* ---------------------------------------------------------------- thread pool
Push(item) == queue' = Append(queue, item)

\* ---------------------------------------------------------------- initial state
\* The Server once Run has entered its event loop: both descriptors open, _server_fd
\* listening and registered, the pool's threads waiting for tasks.
Serving == [epoll_fd |-> "open", server_fd |-> "open", listening |-> TRUE, pool |-> "running"]

\* The state on entering the event loop of Run.
Init ==
  /\ cst = [c \in Conns |-> "init"]
  /\ backlog = <<>>
  /\ rcv = [c \in Conns |-> <<>>]
  /\ sent = [c \in Conns |-> 0]
  /\ fin = [c \in Conns |-> FALSE]
  /\ rst = [c \in Conns |-> FALSE]
  /\ fdOwner = [f \in Fds |-> NoConn]
  /\ registered = {}
  /\ lp = [pc |-> "wait", events |-> <<>>, fd |-> 0, conn |-> NoConn, n |-> 0]
  /\ queue = <<>>
  /\ wk = [w \in Workers |-> IdleWorker]
  /\ cb = [c \in Conns |-> NoCalls]
  /\ closeCalls = [c \in Conns |-> 0]
  /\ srv = Serving

\* ---------------------------------------------------------------- clients
\* Clients connect in the order of their numbers (they are interchangeable).
ClientConnect(c) ==
  /\ cst[c] = "init"
  /\ \A d \in Conns : d < c => cst[d] # "init"
  /\ cst' = [cst EXCEPT ![c] = "backlog"]
  /\ backlog' = Append(backlog, c)
  /\ UNCHANGED <<rcv, sent, fin, rst, fdOwner, registered, lp, queue, wk, cb, closeCalls, srv>>

RECURSIVE SentUpTo(_)
SentUpTo(c) == IF c = 0 THEN 0 ELSE sent[c] + SentUpTo(c - 1)

Alive(c) == cst[c] \in {"backlog", "estab"} /\ ~fin[c] /\ ~rst[c]

ClientSend(c, k) ==
  /\ Alive(c)
  /\ SentUpTo(MaxConns) + k <= MaxSend
  /\ rcv' = [rcv EXCEPT ![c] = @ \o [i \in 1..k |-> Byte(c, sent[c] + i)]]
  /\ sent' = [sent EXCEPT ![c] = @ + k]
  /\ UNCHANGED <<cst, backlog, fin, rst, fdOwner, registered, lp, queue, wk, cb, closeCalls, srv>>

ClientShutdown(c) ==
  /\ Alive(c)
  /\ fin' = [fin EXCEPT ![c] = TRUE]
  /\ UNCHANGED <<cst, backlog, rcv, sent, rst, fdOwner, registered, lp, queue, wk, cb, closeCalls, srv>>

ClientReset(c) ==
  /\ cst[c] = "estab"
  /\ ~rst[c]
  /\ rst' = [rst EXCEPT ![c] = TRUE]
  /\ rcv' = [rcv EXCEPT ![c] = <<>>]
  /\ UNCHANGED <<cst, backlog, sent, fin, fdOwner, registered, lp, queue, wk, cb, closeCalls, srv>>

\* ---------------------------------------------------------------- Server::Run
\* The loop goes on to the next event of the batch, or back to epoll_wait.
Continue ==
  [pc |-> IF Tail(lp.events) = <<>> THEN "wait" ELSE "proc",
   events |-> Tail(lp.events), fd |-> 0, conn |-> NoConn, n |-> 0]

Event == Head(lp.events)

\* A loop that takes a failed epoll_wait as an empty round and waits again.
LoopWaitRetry ==
  /\ lp.pc \in {"wait", "EpollWait"}
  /\ ReadyEvents # {}
  /\ \E batch \in Arrangements(ReadyEvents, Min(Cardinality(ReadyEvents), MaxEvents)) :
       lp' = [lp EXCEPT !.pc = "proc", !.events = batch]
  /\ UNCHANGED <<osVars, queue, wk, cb, closeCalls, srv>>

\* epoll_wait(_epoll_fd, events.data(), _max_events, -1): blocks until an event is ready.
LoopWait ==
  /\ lp.pc = "wait"
  /\ ReadyEvents # {}
  /\ \E batch \in Arrangements(ReadyEvents, Min(Cardinality(ReadyEvents), MaxEvents)) :
       lp' = [lp EXCEPT !.pc = "proc", !.events = batch]
  /\ UNCHANGED <<osVars, queue, wk, cb, closeCalls, srv>>

\* if (events[i].events & EPOLLHUP) continue;
LoopSkipHup ==
  /\ lp.pc = "proc"
  /\ Event.hup
  /\ lp' = Continue
  /\ UNCHANGED <<osVars, queue, wk, cb, closeCalls, srv>>

\* accept() returns -1: the connection is dropped, nothing is reported.
LoopAcceptFail ==
  /\ lp.pc = "proc" /\ ~Event.hup /\ Event.fd = ServerFd
  /\ backlog # <<>>
  /\ cst' = [cst EXCEPT ![Head(backlog)] = "dropped"]
  /\ rcv' = [rcv EXCEPT ![Head(backlog)] = <<>>]
  /\ fin' = [fin EXCEPT ![Head(backlog)] = FALSE]
  /\ backlog' = Tail(backlog)
  /\ lp' = Continue
  /\ UNCHANGED <<sent, rst, fdOwner, registered, queue, wk, cb, closeCalls, srv>>

\* accept() succeeds, epoll_ctl(EPOLL_CTL_ADD) fails: the connection holds its handle,
\* unregistered, until the loop closes it.
LoopRegisterFail ==
  /\ lp.pc = "proc" /\ ~Event.hup /\ Event.fd = ServerFd
  /\ backlog # <<>>
  /\ cst' = [cst EXCEPT ![Head(backlog)] = "estab"]
  /\ backlog' = Tail(backlog)
  /\ fdOwner' = [fdOwner EXCEPT ![LowestFree] = Head(backlog)]
  /\ lp' = [lp EXCEPT !.pc = "unregistered", !.fd = LowestFree, !.conn = Head(backlog)]
  /\ UNCHANGED <<rcv, sent, fin, rst, registered, queue, wk, cb, closeCalls, srv>>

\* A loop that reports a failed registration to the handler.
LoopCloseUnregisteredReports ==
  /\ lp.pc = "unregistered"
  /\ Close(lp.fd, lp.conn, "dropped")
  /\ Push(TerminalItem("OnError", lp.conn, NoConn))
  /\ lp' = Continue
  /\ UNCHANGED <<backlog, sent, wk, cb, srv>>

\* close(client_fd); continue;
LoopCloseUnregistered ==
  /\ lp.pc = "unregistered"
  /\ Close(lp.fd, lp.conn, "dropped")
  /\ lp' = Continue
  /\ UNCHANGED <<backlog, sent, queue, wk, cb, srv>>

\* accept() and epoll_ctl() succeed: push HandleConnUpdate<New>(handler, client_fd).
LoopAccept ==
  /\ lp.pc = "proc" /\ ~Event.hup /\ Event.fd = ServerFd
  /\ backlog # <<>>
  /\ LET c == Head(backlog)
         client_fd == LowestFree
     IN /\ cst' = [cst EXCEPT ![c] = "estab"]
        /\ backlog' = Tail(backlog)
        /\ fdOwner' = [fdOwner EXCEPT ![client_fd] = c]
        /\ registered' = registered \cup {client_fd}
        /\ Push(UpdateItem("New", client_fd, c, <<>>, 0))
  /\ lp' = Continue
  /\ UNCHANGED <<rcv, sent, fin, rst, wk, cb, closeCalls, srv>>

\* read(client_fd, in_buf.data(), in_buf.size()) returns n > 0:
\* push HandleConnUpdate<Read>(handler, client_fd, in_buf) with in_buf moved whole.
LoopRead ==
  /\ lp.pc = "proc" /\ ~Event.hup /\ Event.fd # ServerFd
  /\ Open(Event.fd)
  /\ LET client_fd == Event.fd
         c == fdOwner[client_fd]
         n == Min(Len(rcv[c]), BufSize)
     IN /\ n > 0
        /\ rcv' = [rcv EXCEPT ![c] = SubSeq(@, n + 1, Len(@))]
        /\ Push(UpdateItem("Read", client_fd, c, InBuf(SubSeq(rcv[c], 1, n)), n))
  /\ lp' = Continue
  /\ UNCHANGED <<cst, backlog, sent, fin, rst, fdOwner, registered, wk, cb, closeCalls, srv>>

\* read() returns -1 (closed descriptor, reset connection) or 0 (end of stream);
\* on an open socket with nothing to return the blocking read does not return.
LoopReadNothing ==
  /\ lp.pc = "proc" /\ ~Event.hup /\ Event.fd # ServerFd
  /\ LET client_fd == Event.fd
     IN \/ /\ ~Open(client_fd)
           /\ lp' = [lp EXCEPT !.pc = "failed", !.fd = client_fd, !.conn = Event.conn, !.n = -1]
        \/ /\ Open(client_fd)
           /\ rcv[fdOwner[client_fd]] = <<>>
           /\ rst[fdOwner[client_fd]]
           /\ lp' = [lp EXCEPT !.pc = "failed", !.fd = client_fd,
                                !.conn = fdOwner[client_fd], !.n = -1]
        \/ /\ Open(client_fd)
           /\ rcv[fdOwner[client_fd]] = <<>>
           /\ ~rst[fdOwner[client_fd]]
           /\ fin[fdOwner[client_fd]]
           /\ lp' = [lp EXCEPT !.pc = "eof", !.fd = client_fd,
                                !.conn = fdOwner[client_fd], !.n = 0]
  /\ UNCHANGED <<osVars, queue, wk, cb, closeCalls, srv>>

\* The address the loop captures: GetClientAddress's, or the zeroed one when it throws.
BestEffortAddress(f) == IF GetClientAddressOk(f) THEN GetClientAddress(f) ELSE NoConn

\* n == -1: GetClientAddress (errors swallowed); close(client_fd); push handler.OnError.
LoopReadError ==
  /\ lp.pc = "failed"
  /\ Close(lp.fd, lp.conn, "closed")
  /\ Push(TerminalItem("OnError", lp.conn, BestEffortAddress(lp.fd)))
  /\ lp' = Continue
  /\ UNCHANGED <<backlog, sent, wk, cb, srv>>

\* A loop that calls handler.OnClose itself instead of pushing the call.
LoopReadEofCallsHandler ==
  /\ lp.pc = "eof"
  /\ Close(lp.fd, lp.conn, "closed")
  /\ OnClose(lp.conn)
  /\ lp' = Continue
  /\ UNCHANGED <<backlog, sent, queue, wk, srv>>

\* n == 0: GetClientAddress (errors swallowed); close(client_fd); push handler.OnClose.
LoopReadEof ==
  /\ lp.pc = "eof"
  /\ Close(lp.fd, lp.conn, "closed")
  /\ Push(TerminalItem("OnClose", lp.conn, BestEffortAddress(lp.fd)))
  /\ lp' = Continue
  /\ UNCHANGED <<backlog, sent, wk, cb, srv>>

Run ==
  \/ LoopWait
  \/ LoopSkipHup
  \/ LoopAcceptFail
  \/ LoopRegisterFail
  \/ LoopCloseUnregistered
  \/ LoopAccept
  \/ LoopRead
  \/ LoopReadNothing
  \/ LoopReadError
  \/ LoopReadEof

\* A pool that hands out the newest item instead of the oldest (a stack, not a queue).
WorkerTakeNewest(w) ==
  /\ wk[w].pc = "idle"
  /\ \A v \in Workers : v < w => wk[v].pc # "idle"
  /\ queue # <<>>
  /\ wk' = [wk EXCEPT ![w] = [IdleWorker EXCEPT
               !.pc = IF queue[Len(queue)].kind \in {"New", "Read"} THEN "addr" ELSE "task",
               !.item = queue[Len(queue)]]]
  /\ queue' = SubSeq(queue, 1, Len(queue) - 1)
  /\ UNCHANGED <<osVars, lp, cb, closeCalls, srv>>

\* ---------------------------------------------------------------- ThreadPool worker
\* A waiting worker removes the task at the head of the queue (the waiting workers
\* are interchangeable: the one with the lowest number is taken to be woken).
WorkerTake(w) ==
  /\ wk[w].pc = "idle"
  /\ \A v \in Workers : v < w => wk[v].pc # "idle"
  /\ queue # <<>>
  /\ wk' = [wk EXCEPT ![w] = [IdleWorker EXCEPT
               !.pc = IF Head(queue).kind \in {"New", "Read"} THEN "addr" ELSE "task",
               !.item = Head(queue)]]
  /\ queue' = Tail(queue)
  /\ UNCHANGED <<osVars, lp, cb, closeCalls, srv>>

\* The task is the closure calling handler.OnError / handler.OnClose.
WorkerTerminal(w) ==
  /\ wk[w].pc = "task"
  /\ IF wk[w].item.kind = "OnError" THEN OnError(wk[w].item.conn) ELSE OnClose(wk[w].item.conn)
  /\ wk' = [wk EXCEPT ![w] = IdleWorker]
  /\ UNCHANGED <<osVars, lp, queue, closeCalls, srv>>

\* ---------------------------------------------------------------- Server::HandleConnUpdate
\* client_addr = GetClientAddress(client_fd); a throw leads to the catch block.
ResolveAddress(w) ==
  /\ wk[w].pc = "addr"
  /\ wk' = [wk EXCEPT ![w] =
       IF GetClientAddressOk(wk[w].item.fd)
         THEN [@ EXCEPT !.pc = "call", !.addr = GetClientAddress(wk[w].item.fd)]
         ELSE [@ EXCEPT !.pc = "catch"]]
  /\ UNCHANGED <<osVars, lp, queue, cb, closeCalls, srv>>

\* keep_alive = handler.OnNew(client_addr, out_buf) / handler.OnRead(client_addr, in_buf, out_buf),
\* then Write(client_fd, out_buf): a throw leads to the catch block; after a write that
\* succeeded the function is over when keep_alive holds.
CallHandler(w) ==
  /\ wk[w].pc = "call"
  /\ IF wk[w].item.kind = "New" THEN OnNew(wk[w].item.conn) ELSE OnRead(wk[w].item.conn)
  /\ \E keep_alive \in BOOLEAN :
       wk' = [wk EXCEPT ![w] =
         IF ~WriteOk(wk[w].item.fd) THEN [@ EXCEPT !.pc = "catch"]
         ELSE IF keep_alive THEN IdleWorker
         ELSE [@ EXCEPT !.pc = "close"]]
  /\ UNCHANGED <<osVars, lp, queue, closeCalls, srv>>

\* if (!keep_alive) close(client_fd);
CloseAfterWrite(w) ==
  /\ wk[w].pc = "close"
  /\ Close(wk[w].item.fd, wk[w].item.conn, "shut")
  /\ wk' = [wk EXCEPT ![w] = IdleWorker]
  /\ UNCHANGED <<backlog, sent, lp, queue, cb, srv>>

\* A catch block without its return: the function goes on to the keep-alive close.
CatchErrorFallsThrough(w) ==
  /\ wk[w].pc = "catch"
  /\ Close(wk[w].item.fd, wk[w].item.conn, "closed")
  /\ OnError(wk[w].item.conn)
  /\ wk' = [wk EXCEPT ![w].pc = "close"]
  /\ UNCHANGED <<backlog, sent, lp, queue, srv>>

\* catch (const Error &e) { close(client_fd); return handler.OnError(client_addr, e); }
CatchError(w) ==
  /\ wk[w].pc = "catch"
  /\ Close(wk[w].item.fd, wk[w].item.conn, "closed")
  /\ OnError(wk[w].item.conn)
  /\ wk' = [wk EXCEPT ![w] = IdleWorker]
  /\ UNCHANGED <<backlog, sent, lp, queue, srv>>

HandleConnUpdate(w) ==
  \/ ResolveAddress(w)
  \/ CallHandler(w)
  \/ CloseAfterWrite(w)
  \/ CatchError(w)

Worker(w) ==
  \/ WorkerTake(w)
  \/ WorkerTerminal(w)
  \/ HandleConnUpdate(w)

Client(c) ==
  \/ ClientConnect(c)
  \/ \E k \in 1..MaxSend : ClientSend(c, k)
  \/ ClientShutdown(c)
  \/ ClientReset(c)

\* ---------------------------------------------------------------- specifications
Next ==
  \/ Run
  \/ \E w \in Workers : Worker(w)
  \/ \E c \in Conns : Client(c)

Spec == Init /\ [][Next]_vars

\* The loop thread and every worker thread are scheduled fairly; clients owe nothing.
FairSpec == Spec /\ WF_vars(Run) /\ \A w \in Workers : WF_vars(Worker(w))

\* ---------------------------------------------------------------- main()
\* main() constructs the Server, calls Run, and returns EXIT_FAILURE on a tcp::Error.
\* The main thread's position is lp.pc: "main" before the construction, "constructed"
\* and "listening" inside Run's setup, the loop's positions, the Error::Kind that
\* was thrown, "unwinding" and "exit".
ConstructionErrors == {"EpollCreation", "SocketCreation", "SocketBinding"}
RunErrors == {"SocketListening", "EpollAdd", "EpollWait"}

NotConstructed == [epoll_fd |-> "none", server_fd |-> "none", listening |-> FALSE, pool |-> "none"]

InitMain ==
  /\ cst = [c \in Conns |-> "init"]
  /\ backlog = <<>>
  /\ rcv = [c \in Conns |-> <<>>]
  /\ sent = [c \in Conns |-> 0]
  /\ fin = [c \in Conns |-> FALSE]
  /\ rst = [c \in Conns |-> FALSE]
  /\ fdOwner = [f \in Fds |-> NoConn]
  /\ registered = {}
  /\ lp = [pc |-> "main", events |-> <<>>, fd |-> 0, conn |-> NoConn, n |-> 0]
  /\ queue = <<>>
  /\ wk = [w \in Workers |-> IdleWorker]
  /\ cb = [c \in Conns |-> NoCalls]
  /\ closeCalls = [c \in Conns |-> 0]
  /\ srv = NotConstructed

\* ~ThreadPool: the workers have been told to stop and have been joined.
Joined(s) == [s EXCEPT !.pool = "joined"]

\* The checks of the constructor's body, in order: the Error::Kind it throws, or
\* "constructed".
Construction(max_events, epoll_ok, socket_ok, setsockopt_ok, bind_ok) ==
  IF max_events <= 0 THEN "EpollCreation"
  ELSE IF ~epoll_ok THEN "EpollCreation"
  ELSE IF ~socket_ok THEN "SocketCreation"
  ELSE IF ~setsockopt_ok THEN "SocketCreation"
  ELSE IF ~bind_ok THEN "SocketBinding"
  ELSE "constructed"

\* Server::Server. The member initializers run first, all of them: epoll_create1,
\* socket, and the pool's threads; the body's checks come afterwards. When the body
\* throws, the members are destroyed (the pool is joined; an int has no destructor)
\* and ~Server does not run, the object never having been constructed.
Construct ==
  /\ lp.pc = "main"
  /\ \E max_events \in {0, MaxEvents}, epoll_ok \in BOOLEAN, socket_ok \in BOOLEAN,
        setsockopt_ok \in BOOLEAN, bind_ok \in BOOLEAN :
       LET initialized == [epoll_fd |-> IF epoll_ok THEN "open" ELSE "failed",
                           server_fd |-> IF socket_ok THEN "open" ELSE "failed",
                           listening |-> FALSE,
                           pool |-> "running"]
           outcome == Construction(max_events, epoll_ok, socket_ok, setsockopt_ok, bind_ok)
       IN  /\ lp' = [lp EXCEPT !.pc = outcome]
           /\ srv' = IF outcome = "constructed" THEN initialized ELSE Joined(initialized)
  /\ UNCHANGED <<osVars, queue, wk, cb, closeCalls>>

\* listen(_server_fd, SOMAXCONN)
RunListen ==
  /\ lp.pc = "constructed"
  /\ \E ok \in BOOLEAN :
       IF ok THEN /\ lp' = [lp EXCEPT !.pc = "listening"]
                  /\ srv' = [srv EXCEPT !.listening = TRUE]
             ELSE /\ lp' = [lp EXCEPT !.pc = "SocketListening"]
                  /\ srv' = srv
  /\ UNCHANGED <<osVars, queue, wk, cb, closeCalls>>

\* epoll_ctl(_epoll_fd, EPOLL_CTL_ADD, _server_fd, ...)
RunRegister ==
  /\ lp.pc = "listening"
  /\ \E ok \in BOOLEAN : lp' = [lp EXCEPT !.pc = IF ok THEN "wait" ELSE "EpollAdd"]
  /\ UNCHANGED <<osVars, queue, wk, cb, closeCalls, srv>>

\* epoll_wait returns -1.
LoopWaitFail ==
  /\ lp.pc = "wait"
  /\ lp' = [lp EXCEPT !.pc = "EpollWait"]
  /\ UNCHANGED <<osVars, queue, wk, cb, closeCalls, srv>>

\* Run's error leaves main's try block: ~Server closes both descriptors, then the
\* members are destroyed and ~ThreadPool tells the workers to stop.
DestroyServer ==
  /\ lp.pc \in RunErrors
  /\ lp' = [lp EXCEPT !.pc = "unwinding"]
  /\ srv' = [srv EXCEPT !.epoll_fd = "closed", !.server_fd = "closed",
                        !.listening = FALSE, !.pool = "stopping"]
  /\ UNCHANGED <<osVars, queue, wk, cb, closeCalls>>

\* ~ThreadPool returns once every worker has finished the item it was executing;
\* the items still queued are discarded. main returns EXIT_FAILURE.
JoinPool ==
  /\ lp.pc = "unwinding"
  /\ \A w \in Workers : wk[w].pc = "idle"
  /\ lp' = [lp EXCEPT !.pc = "exit"]
  /\ srv' = Joined(srv)
  /\ queue' = <<>>
  /\ UNCHANGED <<osVars, wk, cb, closeCalls>>

\* A worker told to stop finishes the item it is executing and takes no other.
PoolWorker(w) ==
  /\ srv.pool = "running" \/ wk[w].pc # "idle"
  /\ Worker(w)

Main ==
  \/ Construct
  \/ RunListen
  \/ RunRegister
  \/ LoopWaitFail
  \/ DestroyServer
  \/ JoinPool

\* The one client of MainSpec; it can connect while _server_fd listens.
MainClient ==
  \/ srv.listening /\ ClientConnect(1)
  \/ \E k \in 1..MaxSend : ClientSend(1, k)
  \/ ClientShutdown(1)
  \/ ClientReset(1)

\* The whole of main(), serving one client.
MainNext ==
  \/ Main
  \/ Run
  \/ \E w \in Workers : PoolWorker(w)
  \/ MainClient

MainSpec == InitMain /\ [][MainNext]_vars

\* The threads are scheduled fairly; the client owes nothing, and neither does the
\* kernel owe epoll_wait a failure.
FairMainSpec ==
  /\ MainSpec
  /\ WF_vars(Construct \/ RunListen \/ RunRegister \/ DestroyServer \/ JoinPool)
  /\ WF_vars(Run)
  /\ \A w \in Workers : WF_vars(PoolWorker(w))

\* ---------------------------------------------------------------- vocabulary of the claims
\* Work items that reference a connection handle: queued, or being executed by a worker.
Running == {w \in Workers : wk[w].pc \in {"addr", "call", "close", "catch"}}
QueuedUpdates == {i \in 1..Len(queue) : queue[i].kind \in {"New", "Read"}}

\* The number of New/Read items in flight that were created for connection c.
InFlight(c) ==
  Cardinality({i \in QueuedUpdates : queue[i].conn = c})
  + Cardinality({w \in Running : wk[w].item.conn = c})

\* Whether a New/Read item referencing descriptor f is in flight.
HandedOver(f) ==
  \/ \E i \in QueuedUpdates : queue[i].fd = f
  \/ \E w \in Running : wk[w].item.fd = f

Terminals(c) == cb[c].close + cb[c].error

\* Nothing is left for the server to do: the loop is blocked in epoll_wait, the queue
\* is empty and every worker waits for a task.
Quiescent ==
  /\ lp.pc = "wait"
  /\ ReadyEvents = {}
  /\ queue = <<>>
  /\ \A w \in Workers : wk[w].pc = "idle"

\* ---------------------------------------------------------------- C1
\* C1: for every accepted connection OnNew is invoked at most once, and whenever an
\* OnRead has been invoked for the connection its OnNew has been invoked before.
C1_OnNewOnceBeforeOnRead ==
  \A c \in Conns : cb[c].new <= 1 /\ (cb[c].read > 0 => cb[c].new = 1)

\* ---------------------------------------------------------------- C2
\* C2: at most one terminal callback is ever invoked for a connection: OnClose and
\* OnError never both, neither of them twice.
C2_AtMostOneTerminal ==
  \A c \in Conns : Terminals(c) <= 1

\* ---------------------------------------------------------------- C3
\* C3: an accepted connection that has become unready for good (here: the server has
\* closed its handle) receives a terminal callback; stated at the states where the
\* server has nothing left to do, so that "eventually" has run out.
C3_TerminalWhenQuiescent ==
  Quiescent => \A c \in Conns : cst[c] \in {"closed", "shut"} => Terminals(c) >= 1

\* C3 as a temporal formula, for the specification with fair threads.
C3_TerminalEventually ==
  \A c \in Conns : (cst[c] \in {"closed", "shut"}) ~> (Terminals(c) >= 1)

\* ---------------------------------------------------------------- C4
\* C4: at most one work item referencing a connection's handle is in flight at any time.
C4_OneItemInFlight ==
  \A c \in Conns : InFlight(c) <= 1

\* ---------------------------------------------------------------- C5
\* C5: close is called at most once on the handle of one logical connection.
C5_ClosedOnce ==
  \A c \in Conns : closeCalls[c] <= 1

\* ---------------------------------------------------------------- C6
\* C6: while a New or Read item for a handle is queued or executing, the loop thread
\* neither reads from nor closes that handle, and no worker resolves the address of,
\* writes to or closes a handle that is closed.
C6_WorkerAloneTouchesHandle ==
  [][/\ (LoopRead \/ LoopReadNothing) => ~HandedOver(Event.fd)
     /\ (LoopReadError \/ LoopReadEof) => ~HandedOver(lp.fd)
     /\ \A w \in Workers : (ResolveAddress(w) \/ CallHandler(w)) => Open(wk[w].item.fd)]_vars

\* ---------------------------------------------------------------- C7
\* C7: once OnClose or OnError has been invoked for a connection, no OnRead, OnNew or
\* OnError is invoked for it any more.
C7_NothingAfterTerminal ==
  [][\A c \in Conns : Terminals(c) >= 1 =>
        /\ cb'[c].read = cb[c].read
        /\ cb'[c].new = cb[c].new
        /\ cb'[c].error = cb[c].error]_vars

\* ---------------------------------------------------------------- C8
\* C8: the Read item enqueued for a read of N > 0 bytes carries exactly the N bytes that
\* read took from the connection, and nothing else.
C8_ReadItemCarriesExactlyBytesRead ==
  [][LoopRead =>
       LET c == fdOwner[Event.fd]
       IN queue'[Len(queue')].in_buf = SubSeq(rcv[c], 1, Len(rcv[c]) - Len(rcv'[c]))]_vars

\* ---------------------------------------------------------------- C9
\* C9: when a handler returns keep_alive = true and the write succeeds, the connection's
\* handle is open and registered afterwards, and every OnRead is handed the bytes of one
\* notification: in_bytes as long as what that read returned.
C9_KeepAlive ==
  [][\A w \in Workers : CallHandler(w) =>
        /\ wk'[w].pc = "idle" =>
             /\ fdOwner'[wk[w].item.fd] = wk[w].item.conn
             /\ wk[w].item.fd \in registered'
        /\ wk[w].item.kind = "Read" => Len(wk[w].item.in_buf) = wk[w].item.n]_vars

\* ---------------------------------------------------------------- C10
\* C10: once the server has closed a connection after keep_alive = false, no OnNew and
\* no OnRead is invoked for that connection.
C10_NoHandlerAfterShut ==
  [][\A c \in Conns : cst[c] = "shut" =>
        /\ cb'[c].new = cb[c].new
        /\ cb'[c].read = cb[c].read]_vars

\* ---------------------------------------------------------------- the worker pool (C11)
\* No item is pending and none is being executed.
Drained == queue = <<>> /\ \A w \in Workers : wk[w].pc = "idle"

\* C11: while the pool is not shut down, every work item submitted to the pool is
\* eventually executed exactly once: the queue changes only by an append at its tail
\* (the loop submitting, no worker involved) or by an idle worker removing its head,
\* which is the oldest item; a worker keeps the item it took until it has finished
\* it; and the pool eventually gets through all the work it holds (nothing is queued and
\* no worker is busy), also when more items are pending than there are workers.
C11_SubmittedItemsRunOnceInOrder ==
  /\ [][srv.pool = "running" =>
          /\ \/ queue' = queue
             \/ /\ Len(queue') = Len(queue) + 1
                /\ SubSeq(queue', 1, Len(queue)) = queue
                /\ wk' = wk
             \/ /\ queue # <<>>
                /\ queue' = Tail(queue)
                /\ \E w \in Workers :
                     /\ wk[w].pc = "idle"
                     /\ wk'[w].pc # "idle"
                     /\ \A v \in Workers \ {w} : wk'[v] = wk[v]
          /\ \A w \in Workers :
               /\ wk[w].pc = "idle" /\ wk'[w].pc # "idle" =>
                    /\ queue # <<>>
                    /\ wk'[w].item = Head(queue)
                    /\ queue' = Tail(queue)
               /\ wk[w].pc # "idle" /\ wk'[w].item # wk[w].item => wk'[w] = IdleWorker]_vars
  /\ (srv.pool = "running" /\ ~Drained) ~> (srv.pool # "running" \/ Drained)

\* More items are pending than there are workers, and a worker is executing one.
C11_Witness ==
  /\ srv.pool = "running"
  /\ Len(queue) > Threads
  /\ \E w \in Workers : wk[w].pc # "idle"

\* ---------------------------------------------------------------- errors (C12..C16)
\* Connection d keeps its handle, its registration and its pending work items.
Untouched(d) ==
  /\ cst'[d] = cst[d]
  /\ \A f \in Fds : fdOwner[f] = d => fdOwner'[f] = d /\ (f \in registered' <=> f \in registered)
  /\ \A i \in 1..Len(queue) : queue[i].conn = d => i <= Len(queue') /\ queue'[i] = queue[i]

\* C12: every connection error (the loop's read error, a worker's address or write
\* failure) closes the offending handle, leads to exactly one OnError callback for that
\* connection, leaves the loop running and leaves every other connection's handle,
\* registration and pending work items unchanged.
C12_ErrorClosesAndReportsOnce ==
  [][/\ LoopReadError =>
          /\ ~Open(lp.fd)'
          /\ lp'.pc \in {"wait", "proc"}
          /\ \A d \in Conns \ {lp.conn} : Untouched(d)
     /\ \A w \in Workers : CatchError(w) =>
          /\ ~Open(wk[w].item.fd)'
          /\ lp' = lp
          /\ \A d \in Conns \ {wk[w].item.conn} : Untouched(d)
     /\ \A c \in Conns : cb'[c].error <= 1]_vars

\* Run has thrown: the main thread holds the error, unwinds, or has left main.
RunFailed == lp.pc \in RunErrors \cup {"unwinding", "exit"}

\* C13: a failure of Run's setup or of a wait is fatal and never retried. When listen or
\* the registration of the listening socket has failed, no wait has taken place: nothing
\* was accepted, read, closed, queued or called. A failed wait makes Run throw EpollWait.
\* After any of these failures the main thread never returns to the loop, classifies no
\* notification, accepts no connection and enqueues no work item.
C13_RunFailuresAreFatal ==
  /\ [](lp.pc \in {"SocketListening", "EpollAdd", "constructed", "listening"} =>
          /\ \A c \in Conns : cst[c] \in {"init", "backlog"} /\ cb[c] = NoCalls /\ closeCalls[c] = 0
          /\ \A f \in Fds : ~Open(f)
          /\ registered = {} /\ queue = <<>> /\ lp.events = <<>>)
  /\ [][/\ lp.pc = "wait" /\ lp'.pc \notin {"wait", "proc"} => lp'.pc = "EpollWait"
        /\ RunFailed =>
             /\ RunFailed'
             /\ lp'.events = lp.events
             /\ Len(backlog') >= Len(backlog)
             /\ \A c \in Conns : cst'[c] = "estab" => cst[c] = "estab"
             /\ \A f \in Fds : fdOwner'[f] \in {fdOwner[f], NoConn}
             /\ registered' \subseteq registered
             /\ Len(queue') <= Len(queue)]_vars

\* epoll_wait has failed while a connection was waiting to be accepted or read and
\* work was queued.
C13_Witness ==
  /\ lp.pc = "EpollWait"
  /\ ReadyEvents # {}
  /\ queue # <<>>

\* C14: when the construction of the Server has failed, at whichever step, nothing it
\* created is left behind: the epoll instance is not open, the listening socket is not
\* open, and no worker thread is running.
C14_FailedConstructionLeaksNothing ==
  lp.pc \in ConstructionErrors =>
    /\ srv.epoll_fd # "open"
    /\ srv.server_fd # "open"
    /\ srv.pool \notin {"running", "stopping"}

\* A work item created for connection c is queued or held by a worker.
HasItem(c) ==
  \/ \E i \in 1..Len(queue) : queue[i].conn = c
  \/ \E w \in Workers : wk[w].pc # "idle" /\ wk[w].item.conn = c

\* C15: a failed accept and a failed registration of an accepted handle are silent: the
\* loop enqueues nothing and calls nothing for them, no work item exists and no callback
\* (OnNew, OnRead, OnClose, OnError) is ever invoked for such a connection; after a
\* failed registration the loop's next step is the close of the new handle; and the
\* loop goes on to the next notification.
C15_FailedAcceptIsSilent ==
  /\ [](\A c \in Conns :
          cst[c] = "dropped" \/ (lp.pc = "unregistered" /\ lp.conn = c) =>
            cb[c] = NoCalls /\ ~HasItem(c))
  /\ [][/\ LoopAcceptFail =>
             /\ queue' = queue /\ cb' = cb /\ wk' = wk
             /\ fdOwner' = fdOwner /\ registered' = registered /\ closeCalls' = closeCalls
             /\ lp' = Continue
        /\ LoopRegisterFail =>
             /\ queue' = queue /\ cb' = cb /\ wk' = wk
             /\ registered' = registered /\ closeCalls' = closeCalls
        /\ lp.pc = "unregistered" /\ lp' # lp =>
             /\ closeCalls' = [closeCalls EXCEPT ![lp.conn] = @ + 1]
             /\ ~Open(lp.fd)'
             /\ queue' = queue /\ cb' = cb /\ wk' = wk
             /\ lp' = Continue]_vars

\* The registration of a new handle failed, the loop has closed the handle and is at
\* the next notification of the batch.
C15_Witness ==
  /\ \E c \in Conns : cst[c] = "dropped" /\ closeCalls[c] = 1
  /\ lp.pc = "proc"

\* C16: a failure inside a New or Read work item stops the item. When the address
\* resolution fails, the worker goes to the catch block without having called OnNew or
\* OnRead or written anything; when the write fails, it goes to the catch block and not
\* to the keep-alive close. The catch block issues one close of the handle and one
\* OnError, and the item is over: the worker is idle, nothing else was called.
C16_WorkerFailureStopsItem ==
  [][\A w \in Workers :
       /\ wk[w].pc = "addr" /\ wk'[w] # wk[w] /\ ~GetClientAddressOk(wk[w].item.fd) =>
            /\ wk'[w] = [wk[w] EXCEPT !.pc = "catch"]
            /\ wk[w].addr = NoConn
            /\ cb' = cb /\ closeCalls' = closeCalls
       /\ wk[w].pc = "call" /\ wk'[w] # wk[w] /\ ~WriteOk(wk[w].item.fd) =>
            /\ wk'[w] = [wk[w] EXCEPT !.pc = "catch"]
            /\ closeCalls' = closeCalls
       /\ wk[w].pc = "catch" /\ wk'[w] # wk[w] =>
            /\ wk'[w] = IdleWorker
            /\ cb' = [cb EXCEPT ![wk[w].item.conn].error = @ + 1]
            /\ closeCalls' = [closeCalls EXCEPT ![wk[w].item.conn] = @ + 1]
            /\ ~Open(wk[w].item.fd)']_vars

\* A worker has called OnNew, its write has failed, and it is in the catch block.
C16_Witness ==
  \E w \in Workers :
    /\ wk[w].pc = "catch"
    /\ wk[w].addr # NoConn
    /\ wk[w].item.kind = "New"
    /\ cb[wk[w].item.conn].new = 1

\* ---------------------------------------------------------------- threads (C17..C20)
\* C17: the loop thread never calls application code: every invocation of OnNew,
\* OnRead, OnClose and OnError (and with OnNew and OnRead the write of the response) is
\* a step of a worker that is executing a work item it took from the queue; no step of
\* the loop thread changes what has been called, and no callback is made while the
\* loop's own position changes.
C17_OnlyWorkersCallTheHandler ==
  [][/\ cb' # cb =>
          /\ lp' = lp
          /\ queue' = queue
          /\ \E w \in Workers :
               /\ wk[w].pc \in {"call", "task", "catch"}
               /\ wk[w].item # NoItem
               /\ wk'[w] # wk[w]
               /\ \A c \in Conns : cb'[c] # cb[c] => c = wk[w].item.conn
     /\ lp' # lp => cb' = cb]_vars

\* Every kind of event has been through the loop for one connection, and OnNew, OnRead
\* and OnClose have been invoked for it.
C17_Witness ==
  \E c \in Conns : cb[c].new >= 1 /\ cb[c].read >= 1 /\ cb[c].close >= 1

\* C18: the loop skips the notifications that carry the hang-up flag alone, and only
\* those: a skipped notification does not report its socket readable, and skipping it
\* accepts, reads, closes and enqueues nothing; a notification that reports the
\* listening socket or a connection readable is accepted or read, never skipped.
C18_SkipsHangupOnlyNotifications ==
  [][LoopSkipHup =>
       /\ ~Event.epollin
       /\ UNCHANGED <<osVars, queue, closeCalls>>]_vars

\* C19: when a closed handle value is given to a newly accepted connection, a work
\* item queued for the previous connection with that value never acts on the new one:
\* whenever a worker resolves the address of, writes to or closes its item's handle and
\* the handle is open, the handle belongs to the connection the item was created for.
C19_ItemActsOnItsOwnConnection ==
  [][\A w \in Workers :
       /\ wk[w].pc \in {"addr", "call", "close", "catch"}
       /\ wk'[w] # wk[w]
       /\ Open(wk[w].item.fd)
       => fdOwner[wk[w].item.fd] = wk[w].item.conn]_vars

\* C20: on one kept-alive connection the OnRead callbacks are invoked, and their
\* responses written, in the order in which the loop read the bytes, whatever the number
\* of workers: when a worker invokes OnRead for a Read item, no other worker is handling
\* a Read item of the same connection, and no Read item of that connection carrying
\* earlier bytes is still waiting.
C20_ReadsHandledInOrder ==
  [][\A w \in Workers :
       /\ wk[w].pc = "call"
       /\ wk[w].item.kind = "Read"
       /\ wk'[w] # wk[w]
       => /\ \A v \in Workers \ {w} :
               ~ /\ wk[v].pc \in {"addr", "call"}
                 /\ wk[v].item.kind = "Read"
                 /\ wk[v].item.conn = wk[w].item.conn
          /\ \A i \in 1..Len(queue) :
               queue[i].kind = "Read" /\ queue[i].conn = wk[w].item.conn
                 => queue[i].in_buf[1] > wk[w].item.in_buf[1]]_vars

====
